---- MODULE Spec2Model ----
(***************************************************************************)
(* Model of logging/logging.c: a level-gated log emitter built from C      *)
(* preprocessor macros.  A build fixes SERIAL_VERBOSITY and, optionally,   *)
(* one of the LOG_<X>_SMART_SWITCH macros on the compiler command line.    *)
(* The macros _log, _log_internal, LOGi and LOGf are expanded at a call    *)
(* site and write to the standard output stream through printf.            *)
(*                                                                         *)
(* A string is a sequence of one-character strings, so that padding and    *)
(* truncation by printf are computed and not assumed.                      *)
(***************************************************************************)
EXTENDS Integers, Sequences, FiniteSets, TLC

\* ------------------------------------------------------------------------
\* Bounds of the model
\* ------------------------------------------------------------------------
MaxCalls == 2        \* calls made by the translation unit of pc = "calls"
MaxLiteral == 6      \* largest integer literal passed as a level

\* ------------------------------------------------------------------------
\* logging.c:14-19, 46
\* ------------------------------------------------------------------------
LOG_DEBUG == 5
LOG_INFO == 4
LOG_WARNING == 3
LOG_ERROR == 2
LOG_FATAL == 1
LOG_NONE == 0

max_debug_levels == 9

Levels == LOG_NONE..LOG_DEBUG

\* the integer literals a call site passes as its level: the enumeration and
\* one literal on each side of it
LiteralLevels == (0 - 1)..MaxLiteral

\* ------------------------------------------------------------------------
\* logging.c:30-44: the override slots and their defaults
\* ------------------------------------------------------------------------
Slots == {"LOG_DEBUG_SMART_SWITCH", "LOG_INFO_SMART_SWITCH",
          "LOG_WARNING_SMART_SWITCH", "LOG_ERROR_SMART_SWITCH",
          "LOG_FATAL_SMART_SWITCH"}

SlotDefault_copy_paste(slot) ==
    CASE slot = "LOG_DEBUG_SMART_SWITCH"   -> LOG_INFO
      [] slot = "LOG_INFO_SMART_SWITCH"    -> LOG_INFO
      [] slot = "LOG_WARNING_SMART_SWITCH" -> LOG_WARNING
      [] slot = "LOG_ERROR_SMART_SWITCH"   -> LOG_ERROR
      [] slot = "LOG_FATAL_SMART_SWITCH"   -> LOG_FATAL

SlotDefault(slot) ==
    CASE slot = "LOG_DEBUG_SMART_SWITCH"   -> LOG_DEBUG
      [] slot = "LOG_INFO_SMART_SWITCH"    -> LOG_INFO
      [] slot = "LOG_WARNING_SMART_SWITCH" -> LOG_WARNING
      [] slot = "LOG_ERROR_SMART_SWITCH"   -> LOG_ERROR
      [] slot = "LOG_FATAL_SMART_SWITCH"   -> LOG_FATAL

SmartSwitch_ignores_D(dflags, slot) == SlotDefault(slot)

\* #ifndef LOG_<X>_SMART_SWITCH / #define ... / #endif: the value given with
\* -D when there is one, the level's own value otherwise
SmartSwitch(dflags, slot) ==
    IF slot \in DOMAIN dflags THEN dflags[slot] ELSE SlotDefault(slot)

\* ------------------------------------------------------------------------
\* printf, as far as the format strings of logging.c use it:
\* %[-][width][.precision]{s,d,i} and %%
\* ------------------------------------------------------------------------
Digits == <<"0","1","2","3","4","5","6","7","8","9">>

IsDigit(c) == \E d \in 1..10 : Digits[d] = c

DigitVal(c) == (CHOOSE d \in 1..10 : Digits[d] = c) - 1

Min(a, b) == IF a < b THEN a ELSE b

RECURSIVE NatToStr(_)
NatToStr(n) ==
    IF n < 10 THEN <<Digits[n + 1]>>
    ELSE NatToStr(n \div 10) \o <<Digits[(n % 10) + 1]>>

IntToStr(n) == IF n < 0 THEN <<"-">> \o NatToStr(0 - n) ELSE NatToStr(n)

Spaces(k) == [j \in 1..k |-> " "]

Pad_right_justified(s, width, left) ==
    IF Len(s) >= width THEN s ELSE Spaces(width - Len(s)) \o s

\* field width: never truncates; '-' pads on the right, otherwise on the left
Pad(s, width, left) ==
    IF Len(s) >= width THEN s
    ELSE IF left THEN s \o Spaces(width - Len(s))
         ELSE Spaces(width - Len(s)) \o s

RECURSIVE ParseNum(_, _, _)
ParseNum(fmt, i, acc) ==
    IF i <= Len(fmt) /\ IsDigit(fmt[i])
    THEN ParseNum(fmt, i + 1, acc * 10 + DigitVal(fmt[i]))
    ELSE [val |-> acc, next |-> i]

\* the conversion specification that starts at fmt[i] = "%"
Directive(fmt, i) ==
    LET left == i + 1 <= Len(fmt) /\ fmt[i + 1] = "-"
        j    == IF left THEN i + 2 ELSE i + 1
        w    == ParseNum(fmt, j, 0)
        hasp == w.next <= Len(fmt) /\ fmt[w.next] = "."
        p    == IF hasp THEN ParseNum(fmt, w.next + 1, 0)
                ELSE [val |-> 0, next |-> w.next]
    IN  [left |-> left, width |-> w.val, hasprec |-> hasp, prec |-> p.val,
         conv |-> fmt[p.next], next |-> p.next + 1]

Convert_no_precision(d, arg) ==
    IF d.conv = "s" THEN Pad(arg, d.width, d.left)
    ELSE Pad(IntToStr(arg), d.width, d.left)

Convert(d, arg) ==
    IF d.conv = "s"
    THEN Pad(IF d.hasprec THEN SubSeq(arg, 1, Min(d.prec, Len(arg))) ELSE arg,
             d.width, d.left)
    ELSE Pad(IntToStr(arg), d.width, d.left)

RECURSIVE PrintfFrom(_, _, _, _)
PrintfFrom(fmt, i, args, a) ==
    IF i > Len(fmt) THEN <<>>
    ELSE IF fmt[i] # "%" THEN <<fmt[i]>> \o PrintfFrom(fmt, i + 1, args, a)
    ELSE IF i + 1 <= Len(fmt) /\ fmt[i + 1] = "%"
         THEN <<"%">> \o PrintfFrom(fmt, i + 2, args, a)
    ELSE LET d == Directive(fmt, i)
         IN  Convert(d, args[a]) \o PrintfFrom(fmt, d.next, args, a + 1)

\* the characters printf(fmt, args...) writes
Printf(fmt, args) == PrintfFrom(fmt, 1, args, 1)

\* ------------------------------------------------------------------------
\* Call sites and level arguments
\* ------------------------------------------------------------------------
\* __FILE__, __LINE__, the template and its arguments at a call site
Site(file, line, fmt, args) ==
    [file |-> file, line |-> line, fmt |-> fmt, args |-> args]

\* the level argument of _log after macro expansion: an integer literal
\* (LOG_INFO -> 4) or an identifier naming a variable that holds val
Lit(n) == [kind |-> "literal", val |-> n]
Ident(v) == [kind |-> "identifier", val |-> v]

mod_c == <<"m","o","d",".","c">>
logging_c == <<"l","o","g","g","i","n","g",".","c">>
file30 == <<"a","_","f","i","l","e","_","n","a","m","e","_","o","f","_","t","h","i","r","t","y","_","c","h","a","r","s","_",".","c">>
file36 == <<"a","_","v","e","r","y","_","l","o","n","g","_","f","i","l","e","_","n","a","m","e","_","e","x","c","e","e","d","i","n","g","_","3","0",".","c">>

LogTest == <<"L","o","g"," ","t","e","s","t","!">>
LogTestOfModule == <<"L","o","g"," ","t","e","s","t"," ","o","f"," ","m","o","d","u","l","e","!">>
CheckPrecompiler == <<"C","h","e","c","k"," ","p","r","e","c","o","m","p","i","l","e","r"," ","o","u","t","p","u","t","!">>
HelloDebugLevel == <<"H","e","l","l","o"," ","d","e","b","u","g"," ","l","e","v","e","l"," ","%","i">>

\* the call sites of the translation unit of pc = "calls": labels shorter
\* than, equal to and longer than 30 characters, line numbers of 1, 2 and 5
\* digits, templates with and without a conversion
CallSites ==
    { Site(mod_c, 50, LogTestOfModule, <<>>),
      Site(mod_c, 42, LogTest, <<>>),
      Site(file30, 7, CheckPrecompiler, <<>>),
      Site(file36, 12345, HelloDebugLevel, <<8>>) }

NoSite == Site(<<>>, 0, <<>>, <<>>)

\* ------------------------------------------------------------------------
\* logging.c:52-65: _log_internal
\* ------------------------------------------------------------------------
PrefixFmt == <<"[","%","-","3","0",".","3","0","s",":"," ","%","-","4","d","]"," ">>

NewlineFmt == <<"\n">>

_log_internal_kept_at_NONE(T, site) ==
    IF T < LOG_NONE THEN <<>>
    ELSE Printf(PrefixFmt, <<site.file, site.line>>)
         \o Printf(site.fmt, site.args)
         \o Printf(NewlineFmt, <<>>)

\* the three printf calls, or the empty statement that replaces them when
\* SERIAL_VERBOSITY <= LOG_NONE
_log_internal(T, site) ==
    IF T <= LOG_NONE THEN <<>>
    ELSE Printf(PrefixFmt, <<site.file, site.line>>)
         \o Printf(site.fmt, site.args)
         \o Printf(NewlineFmt, <<>>)

\* ------------------------------------------------------------------------
\* logging.c:72: literal ## .0
\* An integer literal n becomes the floating constant n.0, which is true
\* unless n is 0; an identifier i becomes "i.0", which is no token and
\* stops the build.
\* ------------------------------------------------------------------------
ENFORCE_INTEGER_LITERAL(tok) ==
    [valid |-> tok.kind = "literal", truthy |-> tok.val # 0]

\* ------------------------------------------------------------------------
\* logging.c:84-89: _log.  valid: the statement compiles; text: what it
\* writes when it runs
\* ------------------------------------------------------------------------
_log_strict_less(T, tok, site) ==
    LET e == ENFORCE_INTEGER_LITERAL(tok)
    IN  [valid |-> e.valid,
         text  |-> IF e.valid /\ e.truthy /\ (tok.val < T)
                   THEN _log_internal(T, site) ELSE <<>>]

_log_or(T, tok, site) ==
    LET e == ENFORCE_INTEGER_LITERAL(tok)
    IN  [valid |-> e.valid,
         text  |-> IF e.valid /\ (e.truthy \/ (tok.val <= T))
                   THEN _log_internal(T, site) ELSE <<>>]

_log(T, tok, site) ==
    LET e == ENFORCE_INTEGER_LITERAL(tok)
    IN  [valid |-> e.valid,
         text  |-> IF e.valid /\ e.truthy /\ (tok.val <= T)
                   THEN _log_internal(T, site) ELSE <<>>]

\* ------------------------------------------------------------------------
\* logging.c:91-97: LOGi, LOGf
\* ------------------------------------------------------------------------
LOGi_cut_at_INFO(T, site) ==
    IF T <= LOG_INFO THEN [valid |-> TRUE, text |-> <<>>]
    ELSE _log(T, Lit(LOG_INFO), site)

LOGi(T, site) ==
    IF T < LOG_INFO THEN [valid |-> TRUE, text |-> <<>>]
    ELSE _log(T, Lit(LOG_INFO), site)

LOGf(T, site) == _log(T, Lit(LOG_FATAL), site)

\* ------------------------------------------------------------------------
\* logging.c:99-100: defined and undefined again
\* ------------------------------------------------------------------------
FORBIDDEN_STATEMENTS_defined == TRUE

FORBIDDEN_STATEMENTS == FALSE

\* ------------------------------------------------------------------------
\* State
\* ------------------------------------------------------------------------
VARIABLES
    SERIAL_VERBOSITY,  \* -DSERIAL_VERBOSITY=..., fixed by the build
    dflags,            \* the -DLOG_<X>_SMART_SWITCH=... of the build
    out,               \* the characters written to stdout so far
    build,             \* "ok", or "error" once a statement does not compile
    ncalls,            \* statements of the unit so far (pc = "calls")
    last,              \* the statement made by the last step
    pc,                \* "calls", or the position in main()
    loopEvals          \* evaluations of the condition of _log at line 149

vars == <<SERIAL_VERBOSITY, dflags, out, build, ncalls, last, pc, loopEvals>>

Call(kind, level, slot, site) ==
    [kind |-> kind, level |-> level, slot |-> slot, site |-> site]

NoCall == Call("none", 0, "", NoSite)

\* the command lines of a build: no override, or one slot set to a level
\* (Makefile:9, -DLOG_DEBUG_SMART_SWITCH=LOG_INFO)
DFlagSets ==
    { [s \in {} |-> 0] }
    \cup { [s \in {slot} |-> v] : slot \in Slots, v \in Levels }

Init ==
    /\ SERIAL_VERBOSITY \in Levels
    /\ dflags \in DFlagSets
    /\ out = <<>>
    /\ build = "ok"
    /\ ncalls = 0
    /\ last = NoCall
    /\ pc \in {"calls", "build"}
    /\ loopEvals = 0

\* a statement that does not compile stops the build; one that compiles
\* writes its text
Exec(r) ==
    /\ build' = IF r.valid THEN build ELSE "error"
    /\ out' = IF r.valid THEN out \o r.text ELSE out

\* ------------------------------------------------------------------------
\* A translation unit that uses the macros at its own call sites
\* ------------------------------------------------------------------------
CanCall == pc = "calls" /\ build = "ok" /\ ncalls < MaxCalls

\* _log(<integer literal or LOG_<X>>, fmt, ...)
LogLiteral(L, site) ==
    /\ CanCall
    /\ Exec(_log(SERIAL_VERBOSITY, Lit(L), site))
    /\ last' = Call("_log", L, "", site)
    /\ ncalls' = ncalls + 1
    /\ UNCHANGED <<SERIAL_VERBOSITY, dflags, pc, loopEvals>>

\* _log(LOG_<X>_SMART_SWITCH, fmt, ...)
LogSlot(slot, site) ==
    /\ CanCall
    /\ Exec(_log(SERIAL_VERBOSITY, Lit(SmartSwitch(dflags, slot)), site))
    /\ last' = Call("slot", SmartSwitch(dflags, slot), slot, site)
    /\ ncalls' = ncalls + 1
    /\ UNCHANGED <<SERIAL_VERBOSITY, dflags, pc, loopEvals>>

\* const char level = v; _log(level, fmt, ...)  (as logging.c:118-119)
LogVariable(v, site) ==
    /\ CanCall
    /\ Exec(_log(SERIAL_VERBOSITY, Ident(v), site))
    /\ last' = Call("variable", v, "", site)
    /\ ncalls' = ncalls + 1
    /\ UNCHANGED <<SERIAL_VERBOSITY, dflags, pc, loopEvals>>

CallLOGi(site) ==
    /\ CanCall
    /\ Exec(LOGi(SERIAL_VERBOSITY, site))
    /\ last' = Call("LOGi", LOG_INFO, "", site)
    /\ ncalls' = ncalls + 1
    /\ UNCHANGED <<SERIAL_VERBOSITY, dflags, pc, loopEvals>>

CallLOGf(site) ==
    /\ CanCall
    /\ Exec(LOGf(SERIAL_VERBOSITY, site))
    /\ last' = Call("LOGf", LOG_FATAL, "", site)
    /\ ncalls' = ncalls + 1
    /\ UNCHANGED <<SERIAL_VERBOSITY, dflags, pc, loopEvals>>

\* ------------------------------------------------------------------------
\* logging.c:102-153: main()
\* ------------------------------------------------------------------------
MainSite(line, fmt, args) == Site(logging_c, line, fmt, args)

\* gcc logging.c: the statements under #ifdef FORBIDDEN_STATEMENTS (lines
\* 118-119 and 148-150) pass a variable to _log
BuildMain ==
    /\ pc = "build"
    /\ LET ok == (~FORBIDDEN_STATEMENTS)
                 \/ ( /\ _log(SERIAL_VERBOSITY, Ident(LOG_INFO),
                             MainSite(119, LogTest, <<>>)).valid
                      /\ _log(SERIAL_VERBOSITY, Ident(3),
                             MainSite(149, HelloDebugLevel, <<3>>)).valid )
       IN  /\ build' = IF ok THEN "ok" ELSE "error"
           /\ pc' = IF ok THEN "l113" ELSE "nobinary"
    /\ UNCHANGED <<SERIAL_VERBOSITY, dflags, out, ncalls, last, loopEvals>>

\* line 113: _log(LOG_INFO, "Log test!");
Main113 ==
    /\ pc = "l113"
    /\ Exec(_log(SERIAL_VERBOSITY, Lit(LOG_INFO), MainSite(113, LogTest, <<>>)))
    /\ last' = Call("_log", LOG_INFO, "", MainSite(113, LogTest, <<>>))
    /\ pc' = "l115"
    /\ UNCHANGED <<SERIAL_VERBOSITY, dflags, ncalls, loopEvals>>

\* line 115: _log(LOG_DEBUG_SMART_SWITCH, "Log test of module!");
Main115 ==
    /\ pc = "l115"
    /\ Exec(_log(SERIAL_VERBOSITY,
                Lit(SmartSwitch(dflags, "LOG_DEBUG_SMART_SWITCH")),
                MainSite(115, LogTestOfModule, <<>>)))
    /\ last' = Call("slot", SmartSwitch(dflags, "LOG_DEBUG_SMART_SWITCH"),
                    "LOG_DEBUG_SMART_SWITCH",
                    MainSite(115, LogTestOfModule, <<>>))
    /\ pc' = "l117"
    /\ UNCHANGED <<SERIAL_VERBOSITY, dflags, ncalls, loopEvals>>

\* lines 117-120: const char level = LOG_INFO; _log(level, "Log test!");
\* present only under FORBIDDEN_STATEMENTS
Main117 ==
    /\ pc = "l117"
    /\ IF FORBIDDEN_STATEMENTS
       THEN /\ Exec(_log(SERIAL_VERBOSITY, Ident(LOG_INFO),
                        MainSite(119, LogTest, <<>>)))
            /\ last' = Call("variable", LOG_INFO, "",
                            MainSite(119, LogTest, <<>>))
       ELSE UNCHANGED <<build, out, last>>
    /\ pc' = "l125"
    /\ UNCHANGED <<SERIAL_VERBOSITY, dflags, ncalls, loopEvals>>

\* line 125: LOGi("Check precompiler output!");
Main125 ==
    /\ pc = "l125"
    /\ Exec(LOGi(SERIAL_VERBOSITY, MainSite(125, CheckPrecompiler, <<>>)))
    /\ last' = Call("LOGi", LOG_INFO, "", MainSite(125, CheckPrecompiler, <<>>))
    /\ pc' = "l147"
    /\ UNCHANGED <<SERIAL_VERBOSITY, dflags, ncalls, loopEvals>>

\* what the iterations i, i+1, ... of the loop of line 148 write
RECURSIVE LoopText(_, _)
LoopText(T, i) ==
    IF i < max_debug_levels
    THEN _log(T, Ident(i), MainSite(149, HelloDebugLevel, <<i>>)).text
         \o LoopText(T, i + 1)
    ELSE <<>>

\* lines 147-151: for (char i = 3; i < max_debug_levels; ++i) _log(i, ...);
\* present only under FORBIDDEN_STATEMENTS
Main147 ==
    /\ pc = "l147"
    /\ IF FORBIDDEN_STATEMENTS
       THEN /\ out' = out \o LoopText(SERIAL_VERBOSITY, 3)
            /\ loopEvals' = max_debug_levels - 3
            /\ last' = Call("variable", max_debug_levels - 1, "",
                            MainSite(149, HelloDebugLevel,
                                     <<max_debug_levels - 1>>))
       ELSE UNCHANGED <<out, loopEvals, last>>
    /\ pc' = "l152"
    /\ UNCHANGED <<SERIAL_VERBOSITY, dflags, build, ncalls>>

\* line 152: return 0;
Main152 ==
    /\ pc = "l152"
    /\ pc' = "done"
    /\ UNCHANGED <<SERIAL_VERBOSITY, dflags, out, build, ncalls, last, loopEvals>>

Next ==
    \/ \E L \in LiteralLevels, site \in CallSites : LogLiteral(L, site)
    \/ \E slot \in Slots, site \in CallSites : LogSlot(slot, site)
    \/ \E v \in Levels, site \in CallSites : LogVariable(v, site)
    \/ \E site \in CallSites : CallLOGi(site)
    \/ \E site \in CallSites : CallLOGf(site)
    \/ BuildMain
    \/ Main113
    \/ Main115
    \/ Main117
    \/ Main125
    \/ Main147
    \/ Main152

Spec == Init /\ [][Next]_vars

\* ------------------------------------------------------------------------
\* Vocabulary of the properties
\* ------------------------------------------------------------------------
\* the step makes a call of _log, LOGi or LOGf; last' is that call
CallStep ==
    \/ ncalls' # ncalls
    \/ (pc \in {"l113", "l115", "l125"} /\ pc' # pc)

\* what the step appends to stdout
Appended == SubSeq(out', Len(out) + 1, Len(out'))

Extends == Len(out') >= Len(out) /\ SubSeq(out', 1, Len(out)) = out

\* one line: one line terminator, at the end, after the opening bracket
OneLine(s) ==
    /\ Len(s) > 1
    /\ s[1] = "["
    /\ s[Len(s)] = "\n"
    /\ \A k \in 1..(Len(s) - 1) : s[k] # "\n"

WritesOneLine == Extends /\ OneLine(Appended)

WritesNothing == out' = out

\* the level a slot names when no -D sets it
OwnLevel(slot) ==
    CASE slot = "LOG_DEBUG_SMART_SWITCH"   -> 5
      [] slot = "LOG_INFO_SMART_SWITCH"    -> 4
      [] slot = "LOG_WARNING_SMART_SWITCH" -> 3
      [] slot = "LOG_ERROR_SMART_SWITCH"   -> 2
      [] slot = "LOG_FATAL_SMART_SWITCH"   -> 1

\* the value of a slot under the -D flags of the build
Resolved(slot) ==
    IF slot \in DOMAIN dflags THEN dflags[slot] ELSE OwnLevel(slot)

Overridden(slot, v) == slot \in DOMAIN dflags /\ dflags[slot] = v

\* ------------------------------------------------------------------------
\* C1
\* ------------------------------------------------------------------------
\* C1 as stated: for every threshold T in NONE..DEBUG and every level L of
\* NONE..DEBUG with L <= T, one call _log(L, ...) writes exactly one line.
C1_Original ==
    [][ ( /\ CallStep
          /\ last'.kind = "_log"
          /\ last'.level \in Levels
          /\ last'.level <= SERIAL_VERBOSITY )
        => WritesOneLine ]_vars

\* C1 as amended: for every threshold T and every level L in FATAL..DEBUG
\* with L <= T, one call _log(L, ...) writes exactly one line ("[" ..
\* newline), so threshold DEBUG admits FATAL..DEBUG; a call at level NONE
\* writes nothing under any threshold.
C1_Admitted ==
    [][ /\ ( ( /\ CallStep
               /\ last'.kind = "_log"
               /\ last'.level \in LOG_FATAL..LOG_DEBUG
               /\ last'.level <= SERIAL_VERBOSITY )
             => WritesOneLine )
        /\ ( ( /\ CallStep
               /\ last'.kind = "_log"
               /\ last'.level = LOG_NONE )
             => WritesNothing ) ]_vars

C1_Witness ==
    /\ SERIAL_VERBOSITY = LOG_DEBUG
    /\ ncalls = 1
    /\ last.kind = "_log"
    /\ last.level = LOG_DEBUG
    /\ OneLine(out)

\* ------------------------------------------------------------------------
\* C2
\* ------------------------------------------------------------------------
\* C2: a call _log(L, ...) whose literal level L (a plain literal or the
\* value of an override slot) is above the threshold writes nothing and
\* changes neither the build nor its configuration.
C2_Suppressed ==
    [][ ( /\ CallStep
          /\ last'.kind \in {"_log", "slot"}
          /\ last'.level > SERIAL_VERBOSITY )
        => ( /\ WritesNothing
             /\ build' = build
             /\ UNCHANGED <<SERIAL_VERBOSITY, dflags, loopEvals>> ) ]_vars

C2_Witness ==
    /\ SERIAL_VERBOSITY = LOG_FATAL
    /\ ncalls = 1
    /\ last = Call("_log", LOG_INFO, "", Site(mod_c, 42, LogTest, <<>>))
    /\ out = <<>>

\* ------------------------------------------------------------------------
\* C3
\* ------------------------------------------------------------------------
\* C3: with threshold NONE nothing is ever written, whatever calls of _log
\* (at any literal level), LOGi and LOGf were made.
C3_NoneIsSilent == (SERIAL_VERBOSITY = LOG_NONE) => (out = <<>>)

C3_Witness ==
    /\ SERIAL_VERBOSITY = LOG_NONE
    /\ ncalls >= 2
    /\ last.kind = "_log"
    /\ last.level = LOG_FATAL
    /\ out = <<>>

\* ------------------------------------------------------------------------
\* C4
\* ------------------------------------------------------------------------
Max(a, b) == IF a > b THEN a ELSE b

Layout(line, site) ==
    LET n   == Len(site.file)
        num == IntToStr(site.line)
        w   == Max(Len(num), 4)
        msg == Printf(site.fmt, site.args)
    IN  /\ Len(line) = 1 + 30 + 2 + w + 2 + Len(msg) + 1
        /\ line[1] = "["
        /\ \A j \in 1..30 : line[1 + j] = IF j <= n THEN site.file[j] ELSE " "
        /\ line[32] = ":"
        /\ line[33] = " "
        /\ \A j \in 1..w : line[33 + j] = IF j <= Len(num) THEN num[j] ELSE " "
        /\ line[34 + w] = "]"
        /\ line[35 + w] = " "
        /\ \A j \in 1..Len(msg) : line[35 + w + j] = msg[j]
        /\ line[Len(line)] = "\n"

\* C4: whatever a call writes is "[", the label of the call site in exactly
\* 30 characters (padded with spaces on the right, cut after the 30th), ": ",
\* the line number of the call site in a field of at least 4 characters,
\* "] ", the formatted message and a newline.
C4_Layout ==
    [][ (CallStep /\ out' # out) => (Extends /\ Layout(Appended, last'.site)) ]_vars

C4_Witness ==
    /\ ncalls = 1
    /\ last.site.file = file36
    /\ Len(last.site.file) > 30
    /\ Len(out) > 30

\* ------------------------------------------------------------------------
\* C5
\* ------------------------------------------------------------------------
C5_Case ==
    /\ SERIAL_VERBOSITY = LOG_FATAL
    /\ ncalls = 1
    /\ last = Call("_log", LOG_FATAL, "", Site(mod_c, 50, LogTestOfModule, <<>>))

\* C5 as stated: the call writes
\* "[mod.c                        :  50 ] Log test of module!" and a newline.
C5_Original ==
    C5_Case =>
        out = <<"[","m","o","d",".","c"," "," "," "," "," "," "," "," "," "," "," "," "," "," "," "," "," "," "," "," "," "," "," "," ",":"," "," ","5","0"," ","]"," ","L","o","g"," ","t","e","s","t"," ","o","f"," ","m","o","d","u","l","e","!","\n">>

\* C5 as amended: the call writes
\* "[mod.c                         : 50  ] Log test of module!" and a newline:
\* the label in 30 characters, the line number on the left of its field.
C5_ExactLine ==
    C5_Case =>
        out = <<"[","m","o","d",".","c"," "," "," "," "," "," "," "," "," "," "," "," "," "," "," "," "," "," "," "," "," "," "," "," "," ",":"," ","5","0"," "," ","]"," ","L","o","g"," ","t","e","s","t"," ","o","f"," ","m","o","d","u","l","e","!","\n">>

C5_Witness == C5_Case /\ Len(out) = 59

\* ------------------------------------------------------------------------
\* C6
\* ------------------------------------------------------------------------
\* C6 as stated: with LOG_INFO_SMART_SWITCH = LOG_DEBUG and threshold FATAL,
\* a call through the INFO slot is admitted and a plain INFO call is not.
C6_Original ==
    [][ /\ ( ( /\ CallStep
               /\ SERIAL_VERBOSITY = LOG_FATAL
               /\ Overridden("LOG_INFO_SMART_SWITCH", LOG_DEBUG)
               /\ last'.kind = "slot"
               /\ last'.slot = "LOG_INFO_SMART_SWITCH" )
             => WritesOneLine )
        /\ ( ( /\ CallStep
               /\ SERIAL_VERBOSITY = LOG_FATAL
               /\ last'.kind = "_log"
               /\ last'.level = LOG_INFO )
             => WritesNothing ) ]_vars

\* C6 as amended: with LOG_INFO_SMART_SWITCH = LOG_FATAL and threshold FATAL
\* a call through the INFO slot is admitted, while a plain INFO call stays
\* suppressed; with LOG_INFO_SMART_SWITCH = LOG_DEBUG the call through the
\* slot is suppressed under every threshold below DEBUG.
C6_Override ==
    [][ /\ ( ( /\ CallStep
               /\ SERIAL_VERBOSITY = LOG_FATAL
               /\ Overridden("LOG_INFO_SMART_SWITCH", LOG_FATAL)
               /\ last'.kind = "slot"
               /\ last'.slot = "LOG_INFO_SMART_SWITCH" )
             => WritesOneLine )
        /\ ( ( /\ CallStep
               /\ SERIAL_VERBOSITY = LOG_FATAL
               /\ last'.kind = "_log"
               /\ last'.level = LOG_INFO )
             => WritesNothing )
        /\ ( ( /\ CallStep
               /\ SERIAL_VERBOSITY < LOG_DEBUG
               /\ Overridden("LOG_INFO_SMART_SWITCH", LOG_DEBUG)
               /\ last'.kind = "slot"
               /\ last'.slot = "LOG_INFO_SMART_SWITCH" )
             => WritesNothing ) ]_vars

C6_Witness ==
    /\ SERIAL_VERBOSITY = LOG_FATAL
    /\ Overridden("LOG_INFO_SMART_SWITCH", LOG_FATAL)
    /\ ncalls = 1
    /\ last.kind = "slot"
    /\ last.slot = "LOG_INFO_SMART_SWITCH"
    /\ OneLine(out)

C8_Sugar ==
    [][ /\ ( (CallStep /\ last'.kind = "LOGi")
             => ( /\ Extends
                  /\ Appended = _log(SERIAL_VERBOSITY, Lit(LOG_INFO),
                                     last'.site).text ) )
        /\ ( (CallStep /\ last'.kind = "LOGf")
             => ( /\ Extends
                  /\ Appended = _log(SERIAL_VERBOSITY, Lit(LOG_FATAL),
                                     last'.site).text ) ) ]_vars

C8_Witness ==
    /\ SERIAL_VERBOSITY = LOG_INFO
    /\ ncalls = 1
    /\ last.kind = "LOGi"
    /\ OneLine(out)

\* ------------------------------------------------------------------------
\* C9
\* ------------------------------------------------------------------------
\* C9 as stated: a call through a slot is admitted exactly when the value v
\* of the slot (its own level when unset) satisfies v <= threshold.
C9_Original ==
    [][ (CallStep /\ last'.kind = "slot")
        => ( /\ (Resolved(last'.slot) <= SERIAL_VERBOSITY => WritesOneLine)
             /\ (Resolved(last'.slot) > SERIAL_VERBOSITY => WritesNothing) ) ]_vars

Admits(v) == 0 < v /\ v <= SERIAL_VERBOSITY

\* C9 as amended: a call through a slot is admitted exactly when the value v
\* of the slot (the -D value when set, the level's own value otherwise)
\* satisfies 0 < v <= threshold; a call with a plain level L is admitted
\* exactly when 0 < L <= threshold, whatever slot is set.
C9_Slots ==
    [][ /\ ( (CallStep /\ last'.kind = "slot")
             => ( /\ (Admits(Resolved(last'.slot)) => WritesOneLine)
                  /\ (~Admits(Resolved(last'.slot)) => WritesNothing) ) )
        /\ ( (CallStep /\ last'.kind = "_log" /\ last'.level \in Levels)
             => ( /\ (Admits(last'.level) => WritesOneLine)
                  /\ (~Admits(last'.level) => WritesNothing) ) ) ]_vars

C9_Witness ==
    /\ SERIAL_VERBOSITY = LOG_INFO
    /\ Overridden("LOG_DEBUG_SMART_SWITCH", LOG_INFO)
    /\ ncalls = 1
    /\ last.kind = "slot"
    /\ last.slot = "LOG_DEBUG_SMART_SWITCH"
    /\ OneLine(out)

====
